---- MODULE Spec2Model ----
(***************************************************************************)
(* Elastic double pendulum: the pipeline of pyelastic/double_pendulum.py   *)
(* (ElasticPendulum) and its caller pyelastic/tweeter.py (media).          *)
(*                                                                         *)
(* Conventions of the model                                                *)
(*   - angles are whole quarter turns (1 = pi/2), so that sin and cos are  *)
(*     exact: Sin and Cos below are the tables of numpy's sin and cos on   *)
(*     those angles;                                                       *)
(*   - a time or an interpolation position is a rational [num, den];       *)
(*     t_end is a multiple of 1/4 s and fps a power of two, for which the  *)
(*     double arithmetic of the program is exact;                          *)
(*   - an attribute that has not been assigned yet holds Unset (reading it *)
(*     raises AttributeError in the program);                              *)
(*   - a file name is the sequence of the characters of its stem (digits   *)
(*     for a frame) and its extension.                                     *)
(***************************************************************************)
EXTENDS Integers, Sequences, FiniteSets, TLC

VARIABLES
    self,        \* the ElasticPendulum object: a record of its attributes
    fig_dir,     \* FIG_DIR: file name -> content
    vid_dir,     \* VID_DIR: file name -> content
    pc,          \* position of the calling script (tweeter.media or an API user)
    ret,         \* what integrate returned to the caller: <<>> before it returns
    save_movie,  \* argument of the running animate_spring call
    taskq,       \* Pool: chunks of frame indices not yet taken by a worker
    nchunks,     \* Pool: number of chunks pool.map submitted
    results,     \* Pool: chunks finished, and the first exception a chunk raised
    job,         \* per process: the rest of the chunk a worker is running
    plt,         \* per process: pyplot's open figures, the last one current
    exit_status, \* <<what os.system returned in make_movie>> (the code drops it)
    uploaded,    \* <<the file media handed to twitter.upload_video>>
    removed,     \* history: the file names clear_figs removed
    calls,       \* history: frame index -> number of save_frame invocations
    writes,      \* history: file name -> number of savefig writes in this run
    io_errors    \* history: number of savefig I/O errors so far

vars == <<self, fig_dir, vid_dir, pc, ret, save_movie, taskq, nchunks, results, job,
          plt, exit_status, uploaded, removed, calls, writes, io_errors>>

\* the value shown for an attribute or a variable nothing was assigned to yet
Unset == "unset"

\* hasattr(obj, name): the names assigned after the constructor's own
HasAttr(obj, name) == name \in obj.dict

-----------------------------------------------------------------------------
(* Bounds of the model *)

\* t_end ranges over 1/4 s .. MaxTNum/4 s
MaxTNum == 6
\* worker-pool sizes 1..MaxCores
MaxCores == 2
\* savefig I/O errors the environment may inject in one run
MaxIOErrors == 1

-----------------------------------------------------------------------------
(* Program constants *)

\* self.ns, and the local ns of save_frame
NS == 50
\* self.s, and the local s of save_frame
STRIDE == 4
\* default of save_frame's mult
MULT == 3
\* width of str(i).zfill(5)
ZFILL == 5

-----------------------------------------------------------------------------
(* Arithmetic *)

Rat(n, d) == [num |-> n, den |-> d]

\* a faulty variant of CeilDiv: it rounds down
FloorDiv(a, b) == a \div b

\* ceil(a / b) for a >= 0, b > 0
CeilDiv(a, b) == (a + b - 1) \div b

\* len(np.arange(start = 0, stop, step)) = ceil((stop - 0) / step), stop, step > 0
ArangeLen(stop, step) == CeilDiv(stop.num * step.den, stop.den * step.num)

\* np.arange(k) as a sequence: 0, 1, ..., k-1
Arange(k) == [n \in 1..k |-> n - 1]

\* np.sin, np.cos on quarter turns
Sin(q) == CASE q % 4 = 0 -> 0 [] q % 4 = 1 -> 1 [] q % 4 = 2 -> 0 [] OTHER -> -1
Cos(q) == CASE q % 4 = 0 -> 1 [] q % 4 = 1 -> 0 [] q % 4 = 2 -> -1 [] OTHER -> 0

Min(S) == CHOOSE m \in S : \A n \in S : m <= n
Max(S) == CHOOSE m \in S : \A n \in S : m >= n

Range(f) == {f[n] : n \in DOMAIN f}

-----------------------------------------------------------------------------
(* Constructor: the evaluation grid *)

\* self.dt = 1.0 / self.fps
Dt(fps) == Rat(1, fps)

\* self.t_eval = np.arange(0, self.t_end, self.dt), as the multiples k of dt
TEval(t_end, fps) == Arange(ArangeLen(t_end, Dt(fps)))

-----------------------------------------------------------------------------
(* Integrator: scipy's solve_ivp, abstracted to what it returns *)

\* states (alpha, alpha', beta, beta', a, a', b, b') the solver may produce
\* after the initial one: bob 1 hangs straight down, spring 2 points sideways
SolverStates == { <<0, 0, 1, 0, 1, 0, 2, 0>> }

\* Y0 of integrate
Y0(obj) == << obj.alpha_0, obj.alpha_1, obj.beta_0, obj.beta_1,
              obj.a0, obj.a1, obj.b0, obj.b1 >>

\* the traces of m samples the solver may return: the first is Y0
\* (t_eval[0] = 0), the later ones have moved to a state of SolverStates
Traces(obj, m) ==
    { [k \in 1..m |-> IF k = 1 THEN Y0(obj) ELSE p] : p \in SolverStates }

\* status 0: every instant of t_eval was reached; status -1: the step size
\* collapsed and the result holds only the instants reached before
SolveIvp(obj) ==
    LET n == Len(obj.t_eval) IN
    { [status |-> 0, y |-> y] : y \in Traces(obj, n) }
    \cup UNION { { [status |-> -1, y |-> y] : y \in Traces(obj, m) } : m \in 1..(n - 1) }

\* self.solution.y[[0, 2, 4, 6]].T : the rows (alpha, beta, a, b)
Rows0246(y) == [k \in 1..Len(y) |-> << y[k][1], y[k][3], y[k][5], y[k][7] >>]

-----------------------------------------------------------------------------
(* KinematicsTransform and TrajectoryInterpolator: cartesian *)

CartX1(array) == [k \in 1..Len(array) |-> array[k][3] * Sin(array[k][1])]
CartX2(array) == [k \in 1..Len(array) |->
                    CartX1(array)[k] + array[k][4] * Sin(array[k][2])]
CartY1(array) == [k \in 1..Len(array) |-> (0 - array[k][3]) * Cos(array[k][1])]
\* a faulty variant of CartY2: the last sample is dropped
CartY2Short(array) ==
    [k \in 1..(Len(array) - 1) |->
        (0 - array[k][3]) * Cos(array[k][1]) - array[k][4] * Cos(array[k][2])]

CartY2(array) == [k \in 1..Len(array) |->
                    CartY1(array)[k] - array[k][4] * Cos(array[k][2])]

\* interp1d(np.arange(0, n), y): the piecewise-linear function through the
\* points (k, y[k]), k = 0..n-1; it keeps a copy of y
Interp1d(y) == y

\* interp1d refuses fewer than minval points (1 or 2 with scipy's version)
Interp1dRaises(y, minval) == Len(y) < minval

\* what cartesian returns
CartesianResult(array) ==
    << CartX1(array), CartY1(array), CartX2(array), CartY2(array) >>

\* the attributes cartesian assigns before the interpolants are built
CartesianAssignedTrace(obj, array) ==
    [obj EXCEPT !.x1 = CartX1(array), !.x2 = CartX2(array),
                !.y1 = CartY1(array), !.y2 = CartY2(array),
                !.dict = @ \cup {"x1", "x2", "y1", "y2"}]

\* the object after cartesian(array) has run to its end
CartesianAssigned(obj, array) ==
    [CartesianAssignedTrace(obj, array) EXCEPT
        !.fx1 = Interp1d(CartX1(array)), !.fy1 = Interp1d(CartY1(array)),
        !.fx2 = Interp1d(CartX2(array)), !.fy2 = Interp1d(CartY2(array)),
        !.dict = @ \cup {"fx1", "fy1", "fx2", "fy2"}]

\* the interpolant's domain is [0, n-1]; outside it the call raises ValueError
InDomain(f, t) == t.num >= 0 /\ t.num <= (Len(f) - 1) * t.den

\* f(t) as a numerator over t.den, for t in the domain
InterpEval(f, t) ==
    LET lo == t.num \div t.den IN
    IF lo * t.den = t.num THEN f[lo + 1] * t.den
    ELSE f[lo + 1] * t.den + (t.num - lo * t.den) * (f[lo + 2] - f[lo + 1])

\* np.linspace(start, stop, num): num points, both ends included
Linspace(start, stop, num) ==
    LET den == IF num > 1 THEN num - 1 ELSE 1 IN
    [k \in 1..num |-> Rat(start * den + (k - 1) * (stop - start), den)]

\* x[lo:hi] of a numpy array, 0 <= lo
Slice(x, lo, hi) ==
    LET top == IF hi < Len(x) THEN hi ELSE Len(x) IN
    IF top <= lo THEN <<>> ELSE [k \in 1..(top - lo) |-> x[lo + k]]

-----------------------------------------------------------------------------
(* pyplot's state in one process: the open figures, each the sequence of   *)
(* the artists drawn on it; the last one is the current figure             *)

\* a faulty variant of PltFigure: an open figure is reused
PltFigureReused(figs) == IF figs = <<>> THEN << <<>> >> ELSE figs

\* plt.figure(...): a new, empty figure becomes current
PltFigure(figs) == Append(figs, <<>>)

\* plt.plot / plt.scatter, called in turn: the artists join the current figure
PltDrawAll(figs, artists) == [figs EXCEPT ![Len(figs)] = @ \o artists]

\* what plt.savefig rasterizes: the current figure
PltCurrent(figs) == figs[Len(figs)]

\* plt.clf(); plt.close(): the current figure is dropped
PltClose(figs) == SubSeq(figs, 1, Len(figs) - 1)

-----------------------------------------------------------------------------
(* FrameRenderer: save_frame *)

\* imin = i - (ns - j) * s
SegStart(i, j) == i - (NS - j) * STRIDE

\* imax = imin + s + 1
SegStop(i, j) == SegStart(i, j) + STRIDE + 1

\* if imin < 0: continue
SegSkipped(i, j) == SegStart(i, j) < 0

\* alpha = (j / ns) ** 2
SegOpacity(j) == Rat(j * j, NS * NS)

\* int((imax - imin) * mult)
SegNum(i, j, mult) == (SegStop(i, j) - SegStart(i, j)) * mult

\* ti = np.linspace(imin, imax, int((imax - imin) * mult))
SegPositions(i, j, mult) == Linspace(SegStart(i, j), SegStop(i, j), SegNum(i, j, mult))

\* self.fx1(ti) raises ValueError when a position lies outside the domain
\* (the four interpolants share one domain)
SegRaises(obj, i, j, interpolate, mult) ==
    /\ interpolate
    /\ LET ti == SegPositions(i, j, mult) IN
       \E k \in DOMAIN ti : ~InDomain(obj.fx1, ti[k])

Artist(kind, c, alpha, den, xdata, ydata, pos) ==
    [kind |-> kind, c |-> c, alpha |-> alpha, den |-> den,
     xdata |-> xdata, ydata |-> ydata, pos |-> pos]

\* the two strokes of trail segment j: interpolated, or the samples' slice
SegArtists(obj, i, j, interpolate, mult) ==
    LET ti  == SegPositions(i, j, mult)
        den == IF SegNum(i, j, mult) > 1 THEN SegNum(i, j, mult) - 1 ELSE 1
        pos == << SegStart(i, j), SegStop(i, j), SegNum(i, j, mult) >>
        lo  == SegStart(i, j)
        hi  == SegStop(i, j)
    IN  IF interpolate
        THEN << Artist("trail", "cyan", SegOpacity(j), den,
                       [k \in DOMAIN ti |-> InterpEval(obj.fx1, ti[k])],
                       [k \in DOMAIN ti |-> InterpEval(obj.fy1, ti[k])], pos),
                Artist("trail", "magenta", SegOpacity(j), den,
                       [k \in DOMAIN ti |-> InterpEval(obj.fx2, ti[k])],
                       [k \in DOMAIN ti |-> InterpEval(obj.fy2, ti[k])], pos) >>
        ELSE << Artist("trail", "cyan", SegOpacity(j), 1,
                       Slice(obj.x1, lo, hi), Slice(obj.y1, lo, hi), <<lo, hi>>),
                Artist("trail", "magenta", SegOpacity(j), 1,
                       Slice(obj.x2, lo, hi), Slice(obj.y2, lo, hi), <<lo, hi>>) >>

\* the j of range(ns) the loop does not skip, for every frame index a trace
\* of the model can have (at most MaxTNum samples: t_end <= MaxTNum / 4, fps <= 4)
SegTable == [i \in 0..MaxTNum |-> { j \in 0..(NS - 1) : ~SegSkipped(i, j) }]

SegsDrawn(i) == SegTable[i]

\* for j in range(ns): ...  over the j in todo, in increasing order; the loop
\* ends at the first ValueError
RECURSIVE TrailLoop(_, _, _, _, _, _)
TrailLoop(obj, figs, i, todo, interpolate, mult) ==
    IF todo = {} THEN [exc |-> FALSE, figs |-> figs]
    ELSE LET j == Min(todo) IN
         IF SegRaises(obj, i, j, interpolate, mult) THEN [exc |-> TRUE, figs |-> figs]
         ELSE TrailLoop(obj, PltDrawAll(figs, SegArtists(obj, i, j, interpolate, mult)),
                        i, todo \ {j}, interpolate, mult)

\* the rods origin -> bob 1 -> bob 2, and the three markers
RodArtists(obj, i) ==
    << Artist("rod", "cyan", Rat(1, 1), 1,
              <<0, obj.x1[i + 1]>>, <<0, obj.y1[i + 1]>>, <<>>),
       Artist("rod", "magenta", Rat(1, 1), 1,
              <<obj.x1[i + 1], obj.x2[i + 1]>>, <<obj.y1[i + 1], obj.y2[i + 1]>>, <<>>),
       Artist("bobs", "cyan-cyan-magenta", Rat(1, 1), 1,
              <<0, obj.x1[i + 1], obj.x2[i + 1]>>, <<0, obj.y1[i + 1], obj.y2[i + 1]>>,
              <<>>) >>

\* a faulty variant of XLim: a negative maximum is kept
XLimUnclamped(obj) ==
    LET all == Range(obj.x1) \cup Range(obj.x2) IN << Min(all), Max(all) >>

\* m1 = np.max([x1, x2]); if m1 < 0: m1 = 2; plt.xlim([np.min([x1, x2]), m1])
XLim(obj) ==
    LET all == Range(obj.x1) \cup Range(obj.x2)
        m1  == Max(all)
    IN  << Min(all), IF m1 < 0 THEN 2 ELSE m1 >>

\* m2 = np.max([y1, y2]); if m2 < 0: m2 = 2; plt.ylim([np.min([y1, y2]), m2])
YLim(obj) ==
    LET all == Range(obj.y1) \cup Range(obj.y2)
        m2  == Max(all)
    IN  << Min(all), IF m2 < 0 THEN 2 ELSE m2 >>

\* str(i), i >= 0: its decimal digits
RECURSIVE Str(_)
Str(i) == IF i < 10 THEN <<i>> ELSE Append(Str(i \div 10), i % 10)

\* s.zfill(width): zeros on the left up to width, never a cut
RECURSIVE Zfill(_, _)
Zfill(str, width) == IF Len(str) >= width THEN str ELSE Zfill(<<0>> \o str, width)

\* os.path.join(self.fig_dir, str(i).zfill(5) + ".png")
FrameName(i) == << Zfill(Str(i), ZFILL), "png" >>

\* save_frame(i, ...) up to plt.savefig, in a process whose pyplot state is
\* figs.  exc: the trail's ValueError; image: what savefig is about to write
SaveFrameDraw(obj, figs, i, trace, axes_off, interpolate, mult) ==
    LET opened == PltFigure(figs)
        trail  == IF trace THEN TrailLoop(obj, opened, i, SegsDrawn(i), interpolate, mult)
                  ELSE [exc |-> FALSE, figs |-> opened]
    IN  IF trail.exc THEN [exc |-> TRUE, figs |-> trail.figs, image |-> Unset]
        ELSE LET drawn == PltDrawAll(trail.figs, RodArtists(obj, i)) IN
             [exc |-> FALSE, figs |-> drawn,
              image |-> [artists |-> PltCurrent(drawn), xlim |-> XLim(obj),
                         ylim |-> YLim(obj), axes_off |-> axes_off]]

\* plt.savefig(...); plt.clf(); plt.close() after the drawing d; io_error: the
\* environment fails the write.  exc: "" | "ValueError" | "OSError"; file: the
\* image written, or Unset
SaveFrameEnd(d, io_error) ==
    IF d.exc THEN [exc |-> "ValueError", figs |-> d.figs, file |-> Unset]
    ELSE IF io_error THEN [exc |-> "OSError", figs |-> d.figs, file |-> Unset]
    ELSE [exc |-> "", figs |-> PltClose(d.figs), file |-> d.image]

\* save_frame(i, dpi, trace, axes_off, size, interpolate, mult)
SaveFrame(obj, figs, i, trace, axes_off, interpolate, mult, io_error) ==
    SaveFrameEnd(SaveFrameDraw(obj, figs, i, trace, axes_off, interpolate, mult),
                 io_error)

-----------------------------------------------------------------------------
(* FrameCache: clear_figs *)

\* glob.glob(os.path.join(self.fig_dir, "*png")): the names that end in png
GlobPng(dir) == { f \in DOMAIN dir : f[2] = "png" }

\* a faulty variant of ClearFigs: it removes nothing
ClearNothing(dir) == dir

\* for f in figs: os.remove(f)
ClearFigs(dir) == [f \in (DOMAIN dir) \ GlobPng(dir) |-> dir[f]]

\* the directory with one more file, or one file overwritten
WriteFile(dir, name, content) ==
    [f \in (DOMAIN dir) \cup {name} |-> IF f = name THEN content ELSE dir[f]]

-----------------------------------------------------------------------------
(* ParallelRenderDispatcher: multiprocessing.Pool.map *)

\* chunksize, extra = divmod(len(iterable), len(pool) * 4); if extra: chunksize += 1
Chunksize(n, procs) ==
    IF n % (procs * 4) # 0 THEN n \div (procs * 4) + 1 ELSE n \div (procs * 4)

\* the frame indices np.arange(n) cut into consecutive chunks of size c
RECURSIVE Chunks(_, _, _)
Chunks(from, n, c) ==
    IF from >= n THEN <<>>
    ELSE LET to == IF from + c < n THEN from + c ELSE n IN
         << [k \in 1..(to - from) |-> from + k - 1] >> \o Chunks(to, n, c)

-----------------------------------------------------------------------------
(* MovieEncoder: make_movie *)

\* os.path.join(self.vid_dir, "pend_{}.mp4".format(dt))
MovieName == << "pend_dt", "mp4" >>

\* ffmpeg -i %05d.png reads 00000.png, 00001.png, ... up to the first gap
RECURSIVE FramesRead(_, _)
FramesRead(dir, k) ==
    IF FrameName(k) \in DOMAIN dir THEN FramesRead(dir, k + 1) ELSE k

\* what the shell command leaves behind.  how: "ok" the encoder ran to its
\* end; "missing" there is no ffmpeg (the shell returns 127); "killed" ffmpeg
\* exits non-zero half way and leaves the part it had written
Encode(dir, how) ==
    LET k == FramesRead(dir, 0) IN
    CASE how = "missing" -> [status |-> 127, wrote |-> FALSE, file |-> Unset]
      [] how = "killed"  -> [status |-> 1, wrote |-> TRUE,
                             file |-> [state |-> "partial", frames |-> 0]]
      [] OTHER -> IF k = 0 THEN [status |-> 1, wrote |-> FALSE, file |-> Unset]
                  ELSE [status |-> 0, wrote |-> TRUE,
                        file |-> [state |-> "complete", frames |-> k]]

EncoderOutcomes == { "ok", "missing", "killed" }

-----------------------------------------------------------------------------
(* The state machine *)

\* ElasticPendulum.__init__(alpha_0, beta_0, t_end, fps, cores)
Construct(alpha_0, beta_0, t_end, fps, cores) ==
    [ alpha_0 |-> alpha_0, beta_0 |-> beta_0, alpha_1 |-> 0, beta_1 |-> 0,
      a0 |-> 1, b0 |-> 1, a1 |-> 0, b1 |-> 0, ns |-> NS, s |-> STRIDE,
      t_end |-> t_end, fps |-> fps, dt |-> Dt(fps), t_eval |-> TEval(t_end, fps),
      cores |-> cores, solution |-> Unset,
      x1 |-> Unset, y1 |-> Unset, x2 |-> Unset, y2 |-> Unset,
      fx1 |-> Unset, fy1 |-> Unset, fx2 |-> Unset, fy2 |-> Unset,
      fname |-> Unset, dict |-> {} ]

\* frames an earlier, longer run may have left in FIG_DIR
StaleFiles == { FrameName(0), FrameName(99) }

\* what FIG_DIR may hold before the run: nothing, or the stale frames
PriorContents == { [f \in stale |-> [stale |-> TRUE]] : stale \in { {}, StaleFiles } }

\* the state after construction; the frame cache holds what earlier runs left
Init ==
    /\ \E angle_0 \in {-1, 0}, n \in 1..MaxTNum, fps \in {2, 4}, cores \in 1..MaxCores :
            self = Construct(angle_0, angle_0, Rat(n, 4), fps, cores)
    /\ fig_dir \in PriorContents
    /\ vid_dir = <<>>
    /\ pc = "constructed"
    /\ ret = <<>>
    /\ save_movie = Unset
    /\ taskq = <<>>
    /\ nchunks = 0
    /\ results = [done |-> 0, exc |-> ""]
    /\ job = <<>>
    /\ plt = [p \in {0} |-> <<>>]
    /\ exit_status = <<>>
    /\ uploaded = <<>>
    /\ removed = {}
    /\ calls = <<>>
    /\ writes = <<>>
    /\ io_errors = 0

\* integrate, first half: self.solution = solve_ivp(...)
IntegrateSolve ==
    /\ pc = "constructed"
    /\ \E sol \in SolveIvp(self) : self' = [self EXCEPT !.solution = sol,
                                                     !.dict = @ \cup {"solution"}]
    /\ pc' = "solved"
    /\ UNCHANGED <<fig_dir, vid_dir, ret, save_movie, taskq, nchunks, results, job,
                   plt, exit_status, uploaded, removed, calls, writes, io_errors>>

\* integrate, second half: return self.cartesian(self.solution.y[[0, 2, 4, 6]].T)
\* (the solver's status is not read)
IntegrateCartesian ==
    /\ pc = "solved"
    /\ LET array == Rows0246(self.solution.y) IN
       \E minval \in {1, 2} :
          IF Interp1dRaises(CartX1(array), minval)
          THEN /\ self' = CartesianAssignedTrace(self, array)
               /\ ret' = ret
               /\ pc' = "integrate raised"
          ELSE /\ self' = CartesianAssigned(self, array)
               /\ ret' = CartesianResult(array)
               /\ pc' = "integrated"
    /\ UNCHANGED <<fig_dir, vid_dir, save_movie, taskq, nchunks, results, job,
                   plt, exit_status, uploaded, removed, calls, writes, io_errors>>

\* animate_spring(save_movie) up to the submission of the frames to the pool:
\* clear_figs(); pool = Pool(processes = self.cores); pool.map(...) submits.
\* A pendulum that was never integrated has no x1: AttributeError.
AnimateSpring ==
    /\ pc \in {"constructed", "integrated"}
    /\ save_movie' \in BOOLEAN
    /\ fig_dir' = ClearFigs(fig_dir)
    /\ removed' = GlobPng(fig_dir)
    /\ job' = [w \in 1..self.cores |-> <<>>]
    /\ plt' = [p \in 0..self.cores |-> plt[0]]
    /\ IF ~HasAttr(self, "x1")
       THEN /\ pc' = "animate_spring raised"
            /\ UNCHANGED <<taskq, nchunks, calls>>
       ELSE LET n  == Len(self.x1)
                ch == Chunks(0, n, Chunksize(n, self.cores))
            IN  /\ taskq' = ch
                /\ nchunks' = Len(ch)
                /\ calls' = [i \in 0..(n - 1) |-> 0]
                /\ pc' = "map"
    /\ UNCHANGED <<self, vid_dir, ret, results, exit_status, uploaded, writes,
                   io_errors>>

\* idle workers in the same pyplot state are interchangeable: of those, the
\* model lets the lowest-numbered one take the chunk
FirstOfItsKind(w) == \A v \in 1..(w - 1) : ~(job[v] = <<>> /\ plt[v] = plt[w])

\* The pool's processes have no identity the program can see: the model
\* numbers them idle ones first, then by the frame index each is about to
\* render.  WorkerOrder is that renumbering for the jobs jb.
WorkerKey(jb, w) == IF jb[w] = <<>> THEN 0 ELSE Head(jb[w]) + 1

WorkerOrder(jb) ==
    CHOOSE q \in Permutations(DOMAIN jb) :
        \A a, b \in DOMAIN jb :
            a < b => \/ WorkerKey(jb, q[a]) < WorkerKey(jb, q[b])
                     \/ WorkerKey(jb, q[a]) = WorkerKey(jb, q[b]) /\ q[a] < q[b]

Renumbered(jb, q) == [w \in DOMAIN jb |-> jb[q[w]]]

\* pyplot's states renumbered alike; process 0 is the parent
RenumberedPlt(figs, q) == [p \in DOMAIN figs |-> IF p = 0 THEN figs[0] ELSE figs[q[p]]]

\* an idle worker takes the next chunk of the task queue
WorkerGet(w) ==
    /\ pc = "map"
    /\ job[w] = <<>>
    /\ taskq # <<>>
    /\ FirstOfItsKind(w)
    /\ LET jb == [job EXCEPT ![w] = Head(taskq)]
           q  == WorkerOrder(jb)
       IN  /\ job' = Renumbered(jb, q)
           /\ plt' = RenumberedPlt(plt, q)
    /\ taskq' = Tail(taskq)
    /\ UNCHANGED <<self, fig_dir, vid_dir, pc, ret, save_movie, nchunks, results,
                   exit_status, uploaded, removed, calls, writes, io_errors>>

\* a faulty variant of ChunkResult: the pool counts the chunk and drops its
\* exception
ChunkResultSwallowed(res, rest, exc) ==
    IF exc # "" \/ rest = <<>> THEN [res EXCEPT !.done = @ + 1] ELSE res

\* the chunk's outcome reaches the pool: an exception ends the chunk
ChunkResult(res, rest, exc) ==
    IF exc # "" THEN [done |-> res.done + 1,
                      exc |-> IF res.exc = "" THEN exc ELSE res.exc]
    ELSE IF rest = <<>> THEN [res EXCEPT !.done = @ + 1]
    ELSE res

\* a worker runs self.save_frame(i), with its defaults, on the next index of
\* its chunk: SaveFrame(self, plt[w], i, TRUE, TRUE, TRUE, MULT, io_error), the
\* drawing d being the same whether the environment then fails the write or not
WorkerRender(w) ==
    /\ pc = "map"
    /\ job[w] # <<>>
    /\ LET i == Head(job[w]) IN
       \E d \in { SaveFrameDraw(self, plt[w], i, TRUE, TRUE, TRUE, MULT) } :
          \E io_error \in BOOLEAN :
             /\ io_error => io_errors < MaxIOErrors /\ ~d.exc
             /\ LET r  == SaveFrameEnd(d, io_error)
                    jb == [job EXCEPT ![w] = IF r.exc = "" THEN Tail(@) ELSE <<>>]
                    q  == WorkerOrder(jb)
                IN  /\ calls' = [calls EXCEPT ![i] = @ + 1]
                    /\ job' = Renumbered(jb, q)
                    /\ plt' = RenumberedPlt([plt EXCEPT ![w] = r.figs], q)
                    /\ io_errors' = IF io_error THEN io_errors + 1 ELSE io_errors
                    /\ IF r.exc = ""
                       THEN /\ fig_dir' = WriteFile(fig_dir, FrameName(i), r.file)
                            /\ writes' = WriteFile(writes, FrameName(i),
                                           IF FrameName(i) \in DOMAIN writes
                                           THEN writes[FrameName(i)] + 1 ELSE 1)
                       ELSE UNCHANGED <<fig_dir, writes>>
                    /\ results' = ChunkResult(results, Tail(job[w]), r.exc)
    /\ UNCHANGED <<self, vid_dir, pc, ret, save_movie, taskq, nchunks,
                   exit_status, uploaded, removed>>

\* a faulty variant of MapReady: the queue is drained, chunks may be running
MapReadyQueueDrained == pc = "map" /\ taskq = <<>>

\* pool.map has every chunk's outcome
MapReady == pc = "map" /\ results.done = nchunks

\* pool.map returns the list of results; if save_movie: self.make_movie()
MapReturn ==
    /\ MapReady
    /\ results.exc = ""
    /\ pc' = IF save_movie THEN "make_movie" ELSE "returned"
    /\ UNCHANGED <<self, fig_dir, vid_dir, ret, save_movie, taskq, nchunks, results,
                   job, plt, exit_status, uploaded, removed, calls, writes, io_errors>>

\* pool.map raises the first exception a worker sent, out of animate_spring
MapRaise ==
    /\ MapReady
    /\ results.exc # ""
    /\ pc' = "animate_spring raised"
    /\ UNCHANGED <<self, fig_dir, vid_dir, ret, save_movie, taskq, nchunks, results,
                   job, plt, exit_status, uploaded, removed, calls, writes, io_errors>>

\* make_movie: self.fname is set, os.system runs ffmpeg and its return value
\* is dropped; animate_spring returns
MakeMovie ==
    /\ pc = "make_movie"
    /\ \E how \in EncoderOutcomes :
         LET e == Encode(fig_dir, how) IN
         /\ exit_status' = << e.status >>
         /\ vid_dir' = IF e.wrote THEN WriteFile(vid_dir, MovieName, e.file)
                       ELSE vid_dir
    /\ self' = [self EXCEPT !.fname = MovieName, !.dict = @ \cup {"fname"}]
    /\ pc' = "returned"
    /\ UNCHANGED <<fig_dir, ret, save_movie, taskq, nchunks, results, job, plt,
                   uploaded, removed, calls, writes, io_errors>>

\* tweeter.media after animate_spring(): filename = pendulum.fname;
\* video = open(filename, 'rb'); twitter.upload_video(media = video, ...)
MediaUpload ==
    /\ pc = "returned"
    /\ save_movie = TRUE
    /\ IF ~HasAttr(self, "fname") \/ self.fname \notin DOMAIN vid_dir
       THEN pc' = "media raised" /\ uploaded' = uploaded
       ELSE pc' = "uploaded" /\ uploaded' = << vid_dir[self.fname] >>
    /\ UNCHANGED <<self, fig_dir, vid_dir, ret, save_movie, taskq, nchunks, results,
                   job, plt, exit_status, removed, calls, writes, io_errors>>

Next ==
    \/ IntegrateSolve
    \/ IntegrateCartesian
    \/ AnimateSpring
    \/ \E w \in 1..MaxCores : w \in DOMAIN job /\ WorkerGet(w)
    \/ \E w \in 1..MaxCores : w \in DOMAIN job /\ WorkerRender(w)
    \/ MapReturn
    \/ MapRaise
    \/ MakeMovie
    \/ MediaUpload

Spec == Init /\ [][Next]_vars

-----------------------------------------------------------------------------
(* Vocabulary of the properties *)

\* the names of the frames 0 .. n-1
FrameNames(n) == { FrameName(i) : i \in 0..(n - 1) }

\* animate_spring has been called
RunStarted == pc \notin {"constructed", "solved", "integrated", "integrate raised"}

\* pool.map has returned to animate_spring
MapReturned == pc \in {"make_movie", "returned", "uploaded", "media raised"}

\* animate_spring has returned to its caller
RunCompleted == pc \in {"returned", "uploaded", "media raised"}

\* pool.map is over: it returned, or it raised a worker's exception
DispatchOver == MapReturned \/ (pc = "animate_spring raised" /\ DOMAIN calls # {})

\* the solver reported success
Succeeded == HasAttr(self, "solution") /\ self.solution.status = 0

-----------------------------------------------------------------------------
(* Properties *)

\* C1, as stated: whatever the Cartesian transform, the renderer or the
\* encoder has consumed came from an integration that ended with the success
\* status; a failed or missing integration feeds none of them.
C1_DownstreamOnlyAfterSuccess ==
    (HasAttr(self, "x1") \/ DOMAIN writes # {} \/ exit_status # <<>>) => Succeeded

\* C1: a run in which the solver failed and its partial trace was transformed,
\* rendered, encoded and uploaded
C1_FailedTraceUploaded ==
    /\ pc = "uploaded"
    /\ self.solution.status = -1
    /\ Len(self.x1) < Len(self.t_eval)
    /\ GlobPng(fig_dir) = FrameNames(Len(self.x1))

\* C2: once animate_spring has been called, every frame image in the cache
\* was written by this run (the stale ones were removed before the first
\* write), and when pool.map has returned the cache holds exactly the frames
\* 00000.png .. (N-1).png, until the end of the run.
C2_CacheHoldsExactlyTheRun ==
    /\ RunStarted => /\ GlobPng(fig_dir) = DOMAIN writes
                     /\ \A f \in GlobPng(fig_dir) : "stale" \notin DOMAIN fig_dir[f]
    /\ MapReturned => GlobPng(fig_dir) = FrameNames(Len(self.x1))

\* C2: a completed run of at least two frames that found stale frames in the
\* cache, one of them of an index beyond the run's, and removed them
C2_StaleRemovedRunComplete ==
    /\ RunCompleted
    /\ removed = StaleFiles
    /\ Len(self.x1) >= 2
    /\ GlobPng(fig_dir) = FrameNames(Len(self.x1))

\* C3, as stated: no index is rendered twice, no file is written twice, and
\* when the dispatch is over (the environment having failed no write) every
\* index of [0, N) was rendered once and the N frame files are there.
C3_OncePerIndexNFiles ==
    /\ \A i \in DOMAIN calls : calls[i] <= 1
    /\ \A f \in DOMAIN writes : writes[f] = 1
    /\ (DispatchOver /\ io_errors = 0) =>
          /\ \A i \in DOMAIN calls : calls[i] = 1
          /\ GlobPng(fig_dir) = FrameNames(Len(self.x1))

\* C3: a dispatch over N >= 5 samples that is over with N - 1 files, the
\* render of the last index having raised
C3_LastFrameMissing ==
    /\ pc = "animate_spring raised"
    /\ io_errors = 0
    /\ Len(self.x1) >= 5
    /\ \A i \in DOMAIN calls : calls[i] = 1
    /\ GlobPng(fig_dir) = FrameNames(Len(self.x1) - 1)

FailedRender(i) == calls[i] > 0 /\ FrameName(i) \notin DOMAIN writes

\* C5: once the render of an index has failed, the dispatch is still running
\* or animate_spring has raised to its caller; make_movie has not run and
\* will not: no movie name, no exit status of the encoder, no video file.
C5_RenderFailureFailsRun ==
    (\E i \in DOMAIN calls : FailedRender(i)) =>
        /\ pc \in {"map", "animate_spring raised"}
        /\ ~HasAttr(self, "fname")
        /\ exit_status = <<>>
        /\ DOMAIN vid_dir = {}

\* C5: a run with movie saving on in which the write of a frame failed while
\* other frames were written, and animate_spring raised the error
C5_WriteErrorRaised ==
    /\ pc = "animate_spring raised"
    /\ save_movie
    /\ results.exc = "OSError"
    /\ \E i \in DOMAIN calls : FailedRender(i)
    /\ DOMAIN writes # {}

\* the encoder was run and did not exit with 0
EncoderFailed == exit_status # <<>> /\ exit_status[1] # 0

\* C6, as stated: when the encoder is missing or exits non-zero the run
\* fails: animate_spring raises, no video file is kept, no file name is set
\* on the object and nothing is uploaded.
C6_EncoderFailureIsFatal ==
    EncoderFailed =>
        /\ pc = "animate_spring raised"
        /\ ~HasAttr(self, "fname")
        /\ DOMAIN vid_dir = {}
        /\ uploaded = <<>>

\* C6: the encoder exited non-zero and the part it had written was uploaded
C6_PartialVideoUploaded ==
    /\ pc = "uploaded"
    /\ EncoderFailed
    /\ uploaded[1].state = "partial"

\* C7: when make_movie is about to run or has run, no chunk is left in the
\* queue, no worker holds one, every chunk has reported, every index of
\* [0, N) was rendered and its file is in the cache.
C7_EncoderAfterAllRenders ==
    (pc = "make_movie" \/ exit_status # <<>>) =>
        /\ taskq = <<>>
        /\ \A w \in DOMAIN job : job[w] = <<>>
        /\ results.done = nchunks
        /\ \A i \in DOMAIN calls : calls[i] = 1 /\ FrameName(i) \in DOMAIN fig_dir

\* C7: make_movie is about to run after two workers rendered four frames
C7_EncoderAboutToRun ==
    /\ pc = "make_movie"
    /\ self.cores = 2
    /\ Len(self.x1) = 4
    /\ nchunks = 4
    /\ GlobPng(fig_dir) = FrameNames(4)

\* the file save_frame(i) writes in a process that rendered nothing before
FreshFrame(i) == SaveFrame(self, <<>>, i, TRUE, TRUE, TRUE, MULT, FALSE).file

\* C8: a step that runs save_frame(i) leaves the pendulum object, the video
\* directory and every other file of the cache as they were; if it writes,
\* it writes the one file <i>.png, and that file is what save_frame(i) writes
\* in a fresh process, whatever this worker rendered or leaked before.
C8_RenderTouchesOnlyItsFile ==
    [][ \A i \in DOMAIN calls :
          calls'[i] # calls[i] =>
            /\ self' = self
            /\ vid_dir' = vid_dir
            /\ DOMAIN fig_dir' \subseteq DOMAIN fig_dir \cup {FrameName(i)}
            /\ \A f \in DOMAIN fig_dir \ {FrameName(i)} :
                    f \in DOMAIN fig_dir' /\ fig_dir'[f] = fig_dir[f]
            /\ FrameName(i) \in DOMAIN fig_dir' => fig_dir'[FrameName(i)] = FreshFrame(i)
      ]_vars

\* C8: the one worker of a pool, carrying the figure an earlier, failed
\* render left open, has written a later frame
C8_RenderedAfterLeak ==
    /\ pc = "map"
    /\ self.cores = 1
    /\ plt[1] # <<>>
    /\ \E k, i \in DOMAIN calls :
          k < i /\ FailedRender(k) /\ FrameName(i) \in DOMAIN writes

\* the attributes cartesian assigns
CartesianAttrs == {"x1", "y1", "x2", "y2", "fx1", "fy1", "fx2", "fy2"}

TrailStrokes(image) == { k \in DOMAIN image.artists : image.artists[k].kind = "trail" }

\* C10, as stated: in every frame i written, segment j of 0 .. ns-1 is absent
\* iff i - (ns - j) * s < 0; a segment drawn has opacity (j / ns)^2 and its
\* s * mult positions span [i - (ns - j) * s, i - (ns - j) * s + s].
C10_TrailSegmentsAsSpecified ==
    \A i \in DOMAIN calls :
        FrameName(i) \in DOMAIN writes =>
            LET image == fig_dir[FrameName(i)]
                drawn == { j \in 0..(NS - 1) : i - (NS - j) * STRIDE >= 0 }
            IN  /\ Cardinality(TrailStrokes(image)) = 2 * Cardinality(drawn)
                /\ \A j \in drawn : \A c \in {"cyan", "magenta"} :
                      \E k \in TrailStrokes(image) :
                          LET a == image.artists[k] IN
                          /\ a.c = c
                          /\ a.alpha.num * NS * NS = j * j * a.alpha.den
                          /\ a.pos = << i - (NS - j) * STRIDE,
                                        i - (NS - j) * STRIDE + STRIDE,
                                        STRIDE * MULT >>
                          /\ Len(a.xdata) = STRIDE * MULT

\* C10: frame 4 was written with its one segment, j = ns - 1, sampled at 15
\* positions over [0, 5]
C10_SegmentOvershoots ==
    /\ 4 \in DOMAIN calls
    /\ FrameName(4) \in DOMAIN writes
    /\ \E k \in TrailStrokes(fig_dir[FrameName(4)]) :
          fig_dir[FrameName(4)].artists[k].pos = << 0, 5, 15 >>

\* C11: every frame written has the same axis bounds: the lower ones are the
\* minima of x1/x2 and of y1/y2 over the whole trajectory, the upper ones the
\* maxima over the whole trajectory, or 2 where that maximum is negative, in
\* which case the span is at least 2; a lower bound never exceeds its upper one.
C11_AxisBoundsGlobal ==
    \A i \in DOMAIN calls :
        FrameName(i) \in DOMAIN writes =>
            LET image == fig_dir[FrameName(i)]
                xs    == Range(self.x1) \cup Range(self.x2)
                ys    == Range(self.y1) \cup Range(self.y2)
            IN  /\ \A x \in xs : image.xlim[1] <= x
                /\ image.xlim[1] \in xs
                /\ \A y \in ys : image.ylim[1] <= y
                /\ image.ylim[1] \in ys
                /\ IF \A x \in xs : x < 0
                   THEN image.xlim[2] = 2 /\ image.xlim[2] - image.xlim[1] >= 2
                   ELSE image.xlim[2] \in xs /\ \A x \in xs : x <= image.xlim[2]
                /\ IF \A y \in ys : y < 0
                   THEN image.ylim[2] = 2 /\ image.ylim[2] - image.ylim[1] >= 2
                   ELSE image.ylim[2] \in ys /\ \A y \in ys : y <= image.ylim[2]
                /\ image.xlim[1] <= image.xlim[2]
                /\ image.ylim[1] <= image.ylim[2]
                /\ \A k \in DOMAIN calls :
                      FrameName(k) \in DOMAIN writes =>
                          /\ fig_dir[FrameName(k)].xlim = image.xlim
                          /\ fig_dir[FrameName(k)].ylim = image.ylim

\* C11: frames 0 and 1 of a trajectory are written; its y stay negative, so
\* the upper y bound is 2, and the upper x bound exceeds every x of the
\* samples up to frame 0
C11_TwoFramesClampedY ==
    /\ 1 \in DOMAIN calls
    /\ FrameName(0) \in DOMAIN writes
    /\ FrameName(1) \in DOMAIN writes
    /\ \A y \in Range(self.y1) \cup Range(self.y2) : y < 0
    /\ fig_dir[FrameName(0)].ylim[2] = 2
    /\ fig_dir[FrameName(0)].xlim[2] > self.x1[1]
    /\ fig_dir[FrameName(0)].xlim[2] > self.x2[1]

\* C12, as stated: no render raises the interpolator's range error, and every
\* position at which a render invoked for index i samples the interpolants
\* lies in [0, N-1] and is not greater than i.
C12_QueriesInsideDomain ==
    /\ results.exc # "ValueError"
    /\ \A i \in DOMAIN calls :
          calls[i] > 0 =>
              \A j \in SegsDrawn(i) :
                  LET ti == SegPositions(i, j, MULT) IN
                  \A k \in DOMAIN ti :
                      /\ InDomain(self.fx1, ti[k])
                      /\ ti[k].num <= i * ti[k].den

\* C12: every index of a trajectory of N >= 5 samples was rendered, no write
\* failed, and the render of index N-1 raised the range error
C12_LastFrameRangeError ==
    /\ results.exc = "ValueError"
    /\ io_errors = 0
    /\ Len(self.x1) >= 5
    /\ calls[Len(self.x1) - 1] = 1
    /\ FailedRender(Len(self.x1) - 1)
    /\ \A i \in 0..(Len(self.x1) - 2) : FrameName(i) \in DOMAIN writes

====
